---------------------------- MODULE Spec2Model ----------------------------
(***************************************************************************)
(* Verification model of the frontend-ssr-web build trigger:               *)
(*   - cleanup_functions  (src/deployment/trigger_build.py, 311-329)       *)
(*   - trigger_build      (src/deployment/trigger_build.py, 69-308)        *)
(*   - exec_simple        (src/deployment/remote_executor.py, 10-123)      *)
(*   - connect_and_execute (src/deployment/trigger_build.py, 343-385)      *)
(*   - write_echo_commands_for_file                                        *)
(*                        (src/deployment/remote_executor.py, 150-169)     *)
(*                                                                         *)
(* Exceptions are records [src, at]: src names the raising call, at is the *)
(* (0-based, as in the source) index of the cleanup function that raised   *)
(* it, or -1 when it was not raised by a cleanup function.  Failures are   *)
(* instances of Python's Exception, the class both handlers of             *)
(* cleanup_functions catch.                                                *)
(***************************************************************************)
EXTENDS Integers, Sequences, FiniteSets, TLC

VARIABLES
    \* ---- cleanup_functions (one scope) ----
    sc_pc,      \* "idle" | "body" | "except" | "finally" | "exited"
    funcs,      \* the list yielded to the body: names of the registered callables
    base_e,     \* the exception the body raised into the scope (None: none)
    last_e,     \* local last_e of the finally block
    idx,        \* loop variable of the finally block (0-based)
    calls,      \* history: [idx, result] of every func() awaited, in order
    reports,    \* history: the handle_error calls, in call order
    raised,     \* the exception that left the scope (None: normal exit)
    \* ---- trigger_build (one run) ----
    pc,                 \* position of the trigger_build coroutine
    dry_run,            \* the dry_run argument
    status,             \* local status: the instance status last seen
    waited,             \* sleeps since started_waiting_at (WaitRunning)
    ec2_key,            \* the provider's key pair: "absent" | "present" | "deleted"
    ec2_inst,           \* the provider's instance: "none" | "pending" | "running"
                        \*   | "shutting-down" | "terminated"
    build_ready_task,   \* "none" | "waiting" | "done" | "failed" | "cancelled"
    seen_build_ready,   \* the asyncio.Event
    trace,              \* history: collaborator calls [op, ok], in call order
    outcome,            \* "Running" | "Completed" | "Failed" | "DryRunCompleted"
    surfaced,           \* the exception trigger_build raised to its caller
    \* ---- exec_simple (one call) and its channel ----
    x_pc,               \* "none" | "start" | "poll" | "drain" | "returned" | "raised"
    transport,          \* client.get_transport(): "connected" | "None"
    ready_at_eof,       \* whether the channel's "ready" predicate is also true
                        \*   at end-of-stream (select-style) or only while bytes
                        \*   are buffered (paramiko's recv_ready)
    exit_status_ready,  \* chan.exit_status_ready()
    in_buffer,          \* per stream: bytes received and not yet read
    eof,                \* per stream: the remote end has closed the stream
    sent,               \* history, per stream: every byte delivered so far
    sent_at_exit,       \* history, per stream: Len(sent) when the exit status
                        \*   became ready (-1 before)
    file,               \* per stream: contents of stdout_file / stderr_file
    chunks,             \* history, per stream: what each chan.recv /
                        \*   chan.recv_stderr call returned, in call order
    closed,             \* per stream: stdout_closed / stderr_closed
    made_progress_last_time,
    need_flush,
    elapsed,            \* sleeps of the first loop since started_at (saturating)
    result,             \* what exec_simple returned or raised
    \* ---- connect_and_execute (one call) ----
    c_pc,               \* "none" | "for" | "connect" | "open_sftp" | "write" | "chmod"
                        \*   | "close" | "except" | "after_loop" | "exec"
                        \*   | "close_client" | "returned" | "raised"
    attempt,            \* loop variable of the for loop (-1 before the loop)
    client,             \* local client: "None" | "new" | "connected" | "closed"
    connects,           \* history: how many times client.connect was called
    slept,              \* history: seconds spent in time.sleep
    exec_calls,         \* history: how many times exec_simple was called
    steps_ok,           \* history: the steps of the current attempt that succeeded
    c_exc,              \* the exception being handled or raised (None: none)
    \* ---- write_echo_commands_for_file (one line) and the remote shell ----
    q_pc,               \* "none" | "read" | "written" | "evaluated"
    line,               \* the line read from infile, with its line end
    writer,             \* the text written to writer for that line
    remote_file         \* what the shell has appended to echo_file_path

scopeVars == <<sc_pc, funcs, base_e, last_e, idx, calls, reports, raised>>

buildVars == <<pc, dry_run, status, waited, ec2_key, ec2_inst, build_ready_task,
               seen_build_ready, trace, outcome, surfaced>>

execVars == <<x_pc, transport, ready_at_eof, exit_status_ready, in_buffer, eof, sent,
              sent_at_exit, file, chunks, closed, made_progress_last_time,
              need_flush, elapsed, result>>

\* connect_and_execute
connVars == <<c_pc, attempt, client, connects, slept, exec_calls, steps_ok, c_exc>>

\* write_echo_commands_for_file and the shell that runs what it wrote
quoteVars == <<q_pc, line, writer, remote_file>>

vars == <<scopeVars, buildVars, execVars, connVars, quoteVars>>

\* ---------------------------------------------------------------- bounds
\* Most callables one generic scope registers.
MaxFuncs == 4

\* ---------------------------------------------------------------- helpers
Min(a, b) == IF a <= b THEN a ELSE b

\* ------------------------------------------------------------ exceptions
Exc(s, i) == [src |-> s, at |-> i]
None == Exc("None", -1)

\* ------------------------------------------------- error-observation sink
\* deployment.error_middleware.handle_error(e, extra_info=...): the
\* error-observation channel, which records the report.
handle_error(log, e, info, i) == Append(log, [exc |-> e, extra_info |-> info, idx |-> i])

\* ------------------------------------------------------ cleanup_functions
\* range(len(funcs) - 1, -1, -1): first value, step and end test.
FirstIdx_Mut(fs) == Len(fs) - 2

FirstIdx(fs) == Len(fs) - 1

NextIdx_Mut(i) == i - 2

NextIdx(i) == i - 1

LoopDone_Mut(i) == TRUE

LoopDone(i) == i < 0

\* except Exception as e: last_e = e
RememberFailure_Mut(prev, e) == IF prev = None THEN e ELSE prev

RememberFailure(prev, e) == e

\* after a failed func(): the loop goes on with the next index
IdxAfterFailure_Mut(i) == -1

IdxAfterFailure(i) == NextIdx(i)

\* await handle_error(base_e, extra_info="in wrapped function")
ReportBaseFailure(log, e) == handle_error(log, e, "in wrapped function", -1)

\* await handle_error(e, extra_info=f"while in cleanup function {idx}")
ReportCleanupFailure_Mut(log, e, i) ==
    IF \E k \in 1..Len(log) : log[k].idx >= 0
      THEN log
      ELSE handle_error(log, e, "while in cleanup function", i)

ReportCleanupFailure(log, e, i) == handle_error(log, e, "while in cleanup function", i)

\* if last_e is not None: raise last_e -- otherwise the pending exception of
\* the except clause's bare raise (None when the body completed normally).
Propagated_Mut(le, be) == IF be # None THEN be ELSE le

Propagated(le, be) == IF le # None THEN le ELSE be

\* ---------------------------------------------- the registered callables
\* trace with the call of collaborator operation op appended
Call(tr, op, ok) == Append(tr, [op |-> op, ok |-> ok])

\* The possible results of awaiting funcs[i]: None (returned) or the
\* exception it raised.  "any" is an arbitrary failable callable; the other
\* three are the closures trigger_build registers.
\*   _cleanup_key: delete_key_pair, then a slack message.
\*   _cleanup_instance: terminate_instances, a slack message, then the poll
\*     of describe_instances (a slack message per status change) until the
\*     status is terminal or 600 s have passed.
\*   cancel_build_ready_task: build_ready_task.cancel(), which returns a
\*     bool and does not raise.
FuncResults(f, i) ==
    CASE f = "any" -> {None, Exc("cleanup", i)}
      [] f = "_cleanup_key" ->
            {None, Exc("delete_key_pair", i), Exc("slack.send_ops_message", i)}
      [] f = "_cleanup_instance" ->
            {None, Exc("terminate_instances", i), Exc("slack.send_ops_message", i),
             Exc("describe_instances", i),
             Exc("Timed out waiting for instance to terminate", i)}
      [] f = "cancel_build_ready_task" -> {None}

\* What awaiting f with result r does to the collaborators.
KeyAfterCleanup(r) ==
    IF r.src = "delete_key_pair" THEN ec2_key ELSE "deleted"

InstAfterCleanup(r) ==
    CASE r = None -> "terminated"
      [] r.src = "terminate_instances" -> ec2_inst
      [] OTHER -> IF ec2_inst = "terminated" THEN "terminated" ELSE "shutting-down"

TraceAfterCleanup(f, r) ==
    CASE f = "_cleanup_key" ->
            IF r.src = "delete_key_pair"
              THEN Call(trace, "ec2.delete_key_pair", FALSE)
              ELSE Call(Call(trace, "ec2.delete_key_pair", TRUE),
                        "slack.send_ops_message", r = None)
      [] f = "_cleanup_instance" ->
            IF r.src = "terminate_instances"
              THEN Call(trace, "ec2.terminate_instances", FALSE)
              ELSE Call(Call(trace, "ec2.terminate_instances", TRUE),
                        "slack.send_ops_message", r.src # "slack.send_ops_message")
      [] OTHER -> trace

\* build_ready_task.cancel(): a task that has not finished is cancelled, a
\* finished one is left as it is
TaskAfterCancel_Mut == build_ready_task

TaskAfterCancel == IF build_ready_task = "waiting" THEN "cancelled" ELSE build_ready_task

FuncEffects(f, r) ==
    /\ ec2_key' = IF f = "_cleanup_key" THEN KeyAfterCleanup(r) ELSE ec2_key
    /\ ec2_inst' = IF f = "_cleanup_instance" THEN InstAfterCleanup(r) ELSE ec2_inst
    /\ build_ready_task' = IF f = "cancel_build_ready_task" THEN TaskAfterCancel
                           ELSE build_ready_task
    /\ trace' = TraceAfterCleanup(f, r)
    /\ UNCHANGED <<pc, dry_run, status, waited, seen_build_ready, outcome, surfaced>>

\* ------------------------------------------------ cleanup_functions, steps
\* funcs.append(f), by the body
Register(f) ==
    /\ sc_pc = "body"
    /\ funcs' = Append(funcs, f)
    /\ UNCHANGED <<sc_pc, base_e, last_e, idx, calls, reports, raised>>

\* the body completes normally: the generator resumes after the yield and
\* falls into the finally block
BodyReturns ==
    /\ sc_pc = "body"
    /\ sc_pc' = "finally"
    /\ last_e' = None
    /\ idx' = FirstIdx(funcs)
    /\ UNCHANGED <<funcs, base_e, calls, reports, raised>>

\* the body raises e: it is thrown into the generator at the yield
BodyRaises(e) ==
    /\ sc_pc = "body"
    /\ sc_pc' = "except"
    /\ base_e' = e
    /\ UNCHANGED <<funcs, last_e, idx, calls, reports, raised>>

\* except Exception as base_e: await handle_error(base_e, ...); raise
\* (the raise enters the finally block with base_e pending)
ScopeExcept ==
    /\ sc_pc = "except"
    /\ reports' = ReportBaseFailure(reports, base_e)
    /\ sc_pc' = "finally"
    /\ last_e' = None
    /\ idx' = FirstIdx(funcs)
    /\ UNCHANGED <<funcs, base_e, calls, raised>>
    /\ UNCHANGED <<buildVars, execVars, connVars, quoteVars>>

\* one iteration of the for loop with the result r of await func()
CleanupIter(r) ==
    /\ calls' = Append(calls, [idx |-> idx, result |-> r])
    /\ IF r = None
         THEN /\ idx' = NextIdx(idx)
              /\ UNCHANGED <<last_e, reports>>
         ELSE /\ last_e' = RememberFailure(last_e, r)
              /\ reports' = ReportCleanupFailure(reports, r, idx)
              /\ idx' = IdxAfterFailure(idx)
    /\ UNCHANGED <<sc_pc, funcs, base_e, raised>>

CleanupCall ==
    /\ sc_pc = "finally"
    /\ ~LoopDone(idx)
    /\ \E r \in FuncResults(funcs[idx + 1], idx) :
          /\ CleanupIter(r)
          /\ FuncEffects(funcs[idx + 1], r)
    /\ UNCHANGED <<execVars, connVars, quoteVars>>

\* the end of the finally block
ScopeExit ==
    /\ sc_pc = "finally"
    /\ LoopDone(idx)
    /\ raised' = Propagated(last_e, base_e)
    /\ sc_pc' = "exited"
    /\ UNCHANGED <<funcs, base_e, last_e, idx, calls, reports>>
    /\ UNCHANGED <<buildVars, execVars, connVars, quoteVars>>

\* ------------------------------------------------------------------ inits
ScopeIdle ==
    /\ funcs = <<>>
    /\ base_e = None
    /\ last_e = None
    /\ idx = -1
    /\ calls = <<>>
    /\ reports = <<>>
    /\ raised = None

BuildIdle ==
    /\ status = "none"
    /\ waited = 0
    /\ ec2_key = "absent"
    /\ ec2_inst = "none"
    /\ build_ready_task = "none"
    /\ seen_build_ready = FALSE
    /\ trace = <<>>
    /\ outcome = "Running"
    /\ surfaced = None

Streams == {"stdout", "stderr"}

ExecIdle ==
    /\ exit_status_ready = FALSE
    /\ in_buffer = [s \in Streams |-> <<>>]
    /\ eof = [s \in Streams |-> FALSE]
    /\ sent = [s \in Streams |-> <<>>]
    /\ sent_at_exit = [s \in Streams |-> -1]
    /\ file = [s \in Streams |-> <<>>]
    /\ chunks = [s \in Streams |-> <<>>]
    /\ closed = [s \in Streams |-> FALSE]
    /\ made_progress_last_time = FALSE
    /\ need_flush = FALSE
    /\ elapsed = 0
    /\ result = [kind |-> "none", stdout |-> <<>>, stderr |-> <<>>, exc |-> None]

ConnIdle ==
    /\ attempt = -1
    /\ client = "None"
    /\ connects = 0
    /\ slept = 0
    /\ exec_calls = 0
    /\ steps_ok = <<>>
    /\ c_exc = None

QuoteIdle ==
    /\ writer = <<>>
    /\ remote_file = <<>>

\* ------------------------------------------- a generic scope (SpecScope)
\* A scope whose body registers up to MaxFuncs arbitrary callables and then
\* completes or raises.
ScopeInit ==
    /\ sc_pc = "body"
    /\ ScopeIdle
    /\ pc = "none"
    /\ dry_run = FALSE
    /\ BuildIdle
    /\ x_pc = "none"
    /\ transport = "None"
    /\ ready_at_eof = FALSE
    /\ ExecIdle
    /\ c_pc = "none"
    /\ ConnIdle
    /\ q_pc = "none"
    /\ line = <<>>
    /\ QuoteIdle

GenericRegister ==
    /\ Len(funcs) < MaxFuncs
    /\ Register("any")
    /\ UNCHANGED <<buildVars, execVars, connVars, quoteVars>>

GenericBodyReturns ==
    /\ BodyReturns
    /\ UNCHANGED <<buildVars, execVars, connVars, quoteVars>>

GenericBodyRaises ==
    /\ BodyRaises(Exc("body", -1))
    /\ UNCHANGED <<buildVars, execVars, connVars, quoteVars>>

ScopeNext ==
    \/ GenericRegister
    \/ GenericBodyReturns
    \/ GenericBodyRaises
    \/ ScopeExcept
    \/ CleanupCall
    \/ ScopeExit

SpecScope == ScopeInit /\ [][ScopeNext]_vars

\* ------------------------------------------- trigger_build (SpecBuild)
\* Waits are counted in sleeps of the polling loop; the timeout is scaled to
\* StartTimeout sleeps (600 s at one describe_instances per 5 s).
StartTimeout == 2

\* a step of the body that neither registers nor raises
Goto(next) ==
    /\ pc' = next
    /\ UNCHANGED scopeVars

\* a step of the body that raises e: the scope starts to unwind
Fail(e) ==
    /\ pc' = "unwind"
    /\ BodyRaises(e)

BuildInit ==
    /\ pc = "generate"
    /\ dry_run \in BOOLEAN
    /\ sc_pc = "idle"
    /\ ScopeIdle
    /\ BuildIdle
    /\ x_pc = "none"
    /\ transport = "None"
    /\ ready_at_eof = FALSE
    /\ ExecIdle
    /\ c_pc = "none"
    /\ ConnIdle
    /\ q_pc = "none"
    /\ line = <<>>
    /\ QuoteIdle

\* if dry_run: ... return
DryRunReturns_Mut == FALSE

DryRunReturns == dry_run

\* slack = await itgs.slack() (the client object; no message is sent);
\* session; generate_single_file_script; the dry-run return; otherwise
\* temp_file, the ec2 client and the scope are entered
GenerateScript ==
    /\ pc = "generate"
    /\ IF DryRunReturns
         THEN /\ pc' = "done"
              /\ outcome' = "DryRunCompleted"
              /\ UNCHANGED sc_pc
         ELSE /\ pc' = "create_key_pair"
              /\ sc_pc' = "body"
              /\ UNCHANGED outcome
    /\ UNCHANGED <<funcs, base_e, last_e, idx, calls, reports, raised>>
    /\ UNCHANGED <<dry_run, status, waited, ec2_key, ec2_inst, build_ready_task,
                   seen_build_ready, trace, surfaced>>
    /\ UNCHANGED <<execVars, connVars, quoteVars>>

\* response = await client.create_key_pair(...)
CreateKeyPair ==
    /\ pc = "create_key_pair"
    /\ \E ok \in BOOLEAN :
          /\ trace' = Call(trace, "ec2.create_key_pair", ok)
          /\ IF ok THEN ec2_key' = "present" /\ Goto("write_key_file")
                   ELSE UNCHANGED ec2_key /\ Fail(Exc("create_key_pair", -1))
    /\ UNCHANGED <<dry_run, status, waited, ec2_inst, build_ready_task,
                   seen_build_ready, outcome, surfaced>>
    /\ UNCHANGED <<execVars, connVars, quoteVars>>

\* with open(key_file_path, "w") as f: f.write(key_material)
WriteKeyFile ==
    /\ pc = "write_key_file"
    /\ \E ok \in BOOLEAN :
          IF ok THEN Goto("notify_key") ELSE Fail(Exc("open", -1))
    /\ UNCHANGED <<dry_run, status, waited, ec2_key, ec2_inst, build_ready_task,
                   seen_build_ready, trace, outcome, surfaced>>
    /\ UNCHANGED <<execVars, connVars, quoteVars>>

\* await slack.send_ops_message("... generated build key pair ...");
\* cleanup.append(_cleanup_key)
NotifyKeyAndRegister ==
    /\ pc = "notify_key"
    /\ \E ok \in BOOLEAN :
          /\ trace' = Call(trace, "slack.send_ops_message", ok)
          /\ IF ok THEN pc' = "run_instances" /\ Register("_cleanup_key")
                   ELSE Fail(Exc("slack.send_ops_message", -1))
    /\ UNCHANGED <<dry_run, status, waited, ec2_key, ec2_inst, build_ready_task,
                   seen_build_ready, outcome, surfaced>>
    /\ UNCHANGED <<execVars, connVars, quoteVars>>

\* response = await client.run_instances(...); status = the state it reports
RunInstances ==
    /\ pc = "run_instances"
    /\ \E ok \in BOOLEAN :
          /\ trace' = Call(trace, "ec2.run_instances", ok)
          /\ IF ok THEN /\ ec2_inst' = "pending"
                        /\ status' = "pending"
                        /\ Goto("notify_instance")
                   ELSE /\ UNCHANGED <<ec2_inst, status>>
                        /\ Fail(Exc("run_instances", -1))
    /\ UNCHANGED <<dry_run, waited, ec2_key, build_ready_task,
                   seen_build_ready, outcome, surfaced>>
    /\ UNCHANGED <<execVars, connVars, quoteVars>>

\* await slack.send_ops_message("... launched build server ...");
\* cleanup.append(_cleanup_instance); started_waiting_at = time.time()
NotifyInstanceAndRegister ==
    /\ pc = "notify_instance"
    /\ \E ok \in BOOLEAN :
          /\ trace' = Call(trace, "slack.send_ops_message", ok)
          /\ IF ok THEN pc' = "wait_running" /\ Register("_cleanup_instance")
                   ELSE Fail(Exc("slack.send_ops_message", -1))
    /\ waited' = 0
    /\ UNCHANGED <<dry_run, status, ec2_key, ec2_inst, build_ready_task,
                   seen_build_ready, outcome, surfaced>>
    /\ UNCHANGED <<execVars, connVars, quoteVars>>

\* the provider starts the instance
InstanceBoots ==
    /\ ec2_inst = "pending"
    /\ ec2_inst' = "running"
    /\ UNCHANGED <<pc, dry_run, status, waited, ec2_key, build_ready_task,
                   seen_build_ready, trace, outcome, surfaced>>
    /\ UNCHANGED <<scopeVars, execVars, connVars, quoteVars>>

\* while status != "running": the loop is left
WaitRunningDone ==
    /\ pc = "wait_running"
    /\ status = "running"
    /\ Goto("start_task")
    /\ UNCHANGED <<dry_run, status, waited, ec2_key, ec2_inst, build_ready_task,
                   seen_build_ready, trace, outcome, surfaced>>
    /\ UNCHANGED <<execVars, connVars, quoteVars>>

\* if time.time() - started_waiting_at > 600: raise Exception(...)
WaitRunningTimeout ==
    /\ pc = "wait_running"
    /\ status # "running"
    /\ waited > StartTimeout
    /\ Fail(Exc("Timed out waiting for instance to start", -1))
    /\ UNCHANGED <<dry_run, status, waited, ec2_key, ec2_inst, build_ready_task,
                   seen_build_ready, trace, outcome, surfaced>>
    /\ UNCHANGED <<execVars, connVars, quoteVars>>

\* await asyncio.sleep(5); describe_instances; on a new status a slack message
WaitRunningPoll ==
    /\ pc = "wait_running"
    /\ status # "running"
    /\ waited <= StartTimeout
    /\ waited' = waited + 1
    /\ \E ok \in BOOLEAN, slack_ok \in BOOLEAN :
          IF ~ok
            THEN /\ trace' = Call(trace, "ec2.describe_instances", FALSE)
                 /\ UNCHANGED status
                 /\ Fail(Exc("describe_instances", -1))
            ELSE IF ec2_inst = status
              THEN /\ slack_ok
                   /\ trace' = Call(trace, "ec2.describe_instances", TRUE)
                   /\ UNCHANGED status
                   /\ Goto("wait_running")
              ELSE /\ trace' = Call(Call(trace, "ec2.describe_instances", TRUE),
                                    "slack.send_ops_message", slack_ok)
                   /\ status' = ec2_inst
                   /\ IF slack_ok THEN Goto("wait_running")
                                  ELSE Fail(Exc("slack.send_ops_message", -1))
    /\ UNCHANGED <<dry_run, ec2_key, ec2_inst, build_ready_task,
                   seen_build_ready, outcome, surfaced>>
    /\ UNCHANGED <<execVars, connVars, quoteVars>>

\* seen_build_ready = asyncio.Event(); build_ready_task = asyncio.create_task(...);
\* cleanup.append(cancel_build_ready_task)
StartReadyTask ==
    /\ pc = "start_task"
    /\ build_ready_task' = "waiting"
    /\ pc' = "execute"
    /\ Register("cancel_build_ready_task")
    /\ UNCHANGED <<dry_run, status, waited, ec2_key, ec2_inst,
                   seen_build_ready, trace, outcome, surfaced>>
    /\ UNCHANGED <<execVars, connVars, quoteVars>>

\* _wait_for_build_ready: a message arrives, the slack message is sent and
\* the event is set
ReadyTaskFires ==
    /\ build_ready_task = "waiting"
    /\ build_ready_task' = "done"
    /\ seen_build_ready' = TRUE
    /\ trace' = Call(Call(trace, "redis.subscribe", TRUE), "slack.send_ops_message", TRUE)
    /\ UNCHANGED <<pc, dry_run, status, waited, ec2_key, ec2_inst, outcome, surfaced>>
    /\ UNCHANGED <<scopeVars, execVars, connVars, quoteVars>>

\* _wait_for_build_ready: an Exception before the event is set; it is passed
\* to handle_error and raised again, which ends the task
ReadyTaskFails ==
    /\ build_ready_task = "waiting"
    /\ build_ready_task' = "failed"
    /\ trace' = Call(trace, "redis.subscribe", FALSE)
    /\ reports' = handle_error(reports, Exc("_wait_for_build_ready", -1),
                               "in _wait_for_build_ready", -1)
    /\ UNCHANGED <<sc_pc, funcs, base_e, last_e, idx, calls, raised>>
    /\ UNCHANGED <<pc, dry_run, status, waited, ec2_key, ec2_inst,
                   seen_build_ready, outcome, surfaced>>
    /\ UNCHANGED <<execVars, connVars, quoteVars>>

\* stdout, stderr = await asyncio.wait_for(to_thread(connect_and_execute), 1800):
\* it returns, it raises, or the 30 minutes pass (a slack message, then raise)
ExecuteScript ==
    /\ pc = "execute"
    /\ \E r \in {"returned", "raised", "timeout"}, slack_ok \in BOOLEAN :
          CASE r = "returned" ->
                 /\ slack_ok
                 /\ trace' = Call(trace, "ssh.connect_and_execute", TRUE)
                 /\ Goto("await_ready")
            [] r = "raised" ->
                 /\ slack_ok
                 /\ trace' = Call(trace, "ssh.connect_and_execute", FALSE)
                 /\ Fail(Exc("connect_and_execute", -1))
            [] r = "timeout" ->
                 /\ trace' = Call(Call(trace, "ssh.connect_and_execute", FALSE),
                                  "slack.send_ops_message", slack_ok)
                 /\ Fail(IF slack_ok THEN Exc("TimeoutError", -1)
                                     ELSE Exc("slack.send_ops_message", -1))
    /\ UNCHANGED <<dry_run, status, waited, ec2_key, ec2_inst, build_ready_task,
                   seen_build_ready, outcome, surfaced>>
    /\ UNCHANGED <<execVars, connVars, quoteVars>>

\* await asyncio.wait_for(seen_build_ready.wait(), timeout=300): the event is set
AwaitReadySeen ==
    /\ pc = "await_ready"
    /\ seen_build_ready
    /\ Goto("store_logs")
    /\ UNCHANGED <<dry_run, status, waited, ec2_key, ec2_inst, build_ready_task,
                   seen_build_ready, trace, outcome, surfaced>>
    /\ UNCHANGED <<execVars, connVars, quoteVars>>

\* whether wait_for(seen_build_ready.wait(), timeout=300) can time out
ReadyWaitTimesOut_Mut == FALSE

ReadyWaitTimesOut == ~seen_build_ready

\* ... the 5 minutes pass with the event not set: a slack message, then raise
AwaitReadyTimeout ==
    /\ pc = "await_ready"
    /\ ReadyWaitTimesOut
    /\ \E slack_ok \in BOOLEAN :
          /\ trace' = Call(trace, "slack.send_ops_message", slack_ok)
          /\ Fail(IF slack_ok THEN Exc("TimeoutError", -1)
                              ELSE Exc("slack.send_ops_message", -1))
    /\ UNCHANGED <<dry_run, status, waited, ec2_key, ec2_inst, build_ready_task,
                   seen_build_ready, outcome, surfaced>>
    /\ UNCHANGED <<execVars, connVars, quoteVars>>

\* the "storing build logs" message and the two uploads
StoreLogs ==
    /\ pc = "store_logs"
    /\ \E r \in {"ok", "slack", "upload_stdout", "upload_stderr"} :
          CASE r = "slack" ->
                 /\ trace' = Call(trace, "slack.send_ops_message", FALSE)
                 /\ Fail(Exc("slack.send_ops_message", -1))
            [] r = "upload_stdout" ->
                 /\ trace' = Call(Call(trace, "slack.send_ops_message", TRUE),
                                  "files.upload", FALSE)
                 /\ Fail(Exc("files.upload", -1))
            [] r = "upload_stderr" ->
                 /\ trace' = Call(Call(Call(trace, "slack.send_ops_message", TRUE),
                                  "files.upload", TRUE), "files.upload", FALSE)
                 /\ Fail(Exc("files.upload", -1))
            [] r = "ok" ->
                 /\ trace' = Call(Call(Call(trace, "slack.send_ops_message", TRUE),
                                  "files.upload", TRUE), "files.upload", TRUE)
                 /\ Goto("notify_cleanup")
    /\ UNCHANGED <<dry_run, status, waited, ec2_key, ec2_inst, build_ready_task,
                   seen_build_ready, outcome, surfaced>>
    /\ UNCHANGED <<execVars, connVars, quoteVars>>

\* await slack.send_ops_message("... cleaning up ec2 artifacts..."): the last
\* statement of the body
NotifyCleanup ==
    /\ pc = "notify_cleanup"
    /\ \E ok \in BOOLEAN :
          /\ trace' = Call(trace, "slack.send_ops_message", ok)
          /\ IF ok THEN pc' = "unwind" /\ BodyReturns
                   ELSE Fail(Exc("slack.send_ops_message", -1))
    /\ UNCHANGED <<dry_run, status, waited, ec2_key, ec2_inst, build_ready_task,
                   seen_build_ready, outcome, surfaced>>
    /\ UNCHANGED <<execVars, connVars, quoteVars>>

\* the scope raised: the exception leaves the with blocks and trigger_build
RunFails ==
    /\ pc = "unwind"
    /\ sc_pc = "exited"
    /\ raised # None
    /\ pc' = "done"
    /\ outcome' = "Failed"
    /\ surfaced' = raised
    /\ UNCHANGED <<dry_run, status, waited, ec2_key, ec2_inst, build_ready_task,
                   seen_build_ready, trace>>
    /\ UNCHANGED <<scopeVars, execVars, connVars, quoteVars>>

\* the scope exited normally: the "build complete" message, then
\* redis.publish("updates:frontend-ssr-web:do_update", "1")
NotifyDownstream ==
    /\ pc = "unwind"
    /\ sc_pc = "exited"
    /\ raised = None
    /\ pc' = "done"
    /\ \E r \in {"ok", "slack", "publish"} :
          CASE r = "slack" ->
                 /\ trace' = Call(trace, "slack.send_ops_message", FALSE)
                 /\ outcome' = "Failed"
                 /\ surfaced' = Exc("slack.send_ops_message", -1)
            [] r = "publish" ->
                 /\ trace' = Call(Call(trace, "slack.send_ops_message", TRUE),
                                  "redis.publish", FALSE)
                 /\ outcome' = "Failed"
                 /\ surfaced' = Exc("redis.publish", -1)
            [] r = "ok" ->
                 /\ trace' = Call(Call(trace, "slack.send_ops_message", TRUE),
                                  "redis.publish", TRUE)
                 /\ outcome' = "Completed"
                 /\ UNCHANGED surfaced
    /\ UNCHANGED <<dry_run, status, waited, ec2_key, ec2_inst, build_ready_task,
                   seen_build_ready>>
    /\ UNCHANGED <<scopeVars, execVars, connVars, quoteVars>>

BuildNext ==
    \/ GenerateScript
    \/ CreateKeyPair
    \/ WriteKeyFile
    \/ NotifyKeyAndRegister
    \/ RunInstances
    \/ NotifyInstanceAndRegister
    \/ InstanceBoots
    \/ WaitRunningDone
    \/ WaitRunningTimeout
    \/ WaitRunningPoll
    \/ StartReadyTask
    \/ ReadyTaskFires
    \/ ReadyTaskFails
    \/ ExecuteScript
    \/ AwaitReadySeen
    \/ AwaitReadyTimeout
    \/ StoreLogs
    \/ NotifyCleanup
    \/ ScopeExcept
    \/ CleanupCall
    \/ ScopeExit
    \/ RunFails
    \/ NotifyDownstream

SpecBuild == BuildInit /\ [][BuildNext]_vars

\* The steps of the trigger_build coroutine (the body, the unwind and the
\* exit), as opposed to what the instance and the background task do.
BuildStep ==
    \/ GenerateScript
    \/ CreateKeyPair
    \/ WriteKeyFile
    \/ NotifyKeyAndRegister
    \/ RunInstances
    \/ NotifyInstanceAndRegister
    \/ WaitRunningDone
    \/ WaitRunningTimeout
    \/ WaitRunningPoll
    \/ StartReadyTask
    \/ ExecuteScript
    \/ AwaitReadySeen
    \/ AwaitReadyTimeout
    \/ StoreLogs
    \/ NotifyCleanup
    \/ ScopeExcept
    \/ CleanupCall
    \/ ScopeExit
    \/ RunFails
    \/ NotifyDownstream

\* Every awaited call returns or raises and every sleep and timer runs out,
\* so the event loop resumes the coroutine whenever it can take a step.
\* Nothing is assumed of the instance or of the build_ready message.
SpecBuildFair == SpecBuild /\ WF_vars(BuildStep)

\* --------------------------------------------- exec_simple (SpecExec)
\* Most bytes the remote command writes to one stream.
MaxBytes == 2

\* chan.recv(4096) / chan.recv_stderr(4096), scaled to 1 byte.
ChunkSize == 1

\* cmd_timeout=3600 (chan.settimeout(cmd_timeout)), scaled to 2 sleeps.
CmdTimeout == 2

\* The count of sleeps saturates once it is past cmd_timeout.
MaxElapsed == CmdTimeout + 1

\* The byte values written: an ASCII letter, and 0xFF, which is not valid
\* anywhere in UTF-8.
Bytes == {65, 255}

Take(q, n) == SubSeq(q, 1, Min(n, Len(q)))

Drop(q, n) == SubSeq(q, Min(n, Len(q)) + 1, Len(q))

\* bytes.decode("utf-8", errors="replace") on the byte values above: a byte
\* that cannot be decoded becomes U+FFFD.
DecodeByte(b) == IF b < 128 THEN b ELSE 65533

Decode(q) == [i \in 1..Len(q) |-> DecodeByte(q[i])]

\* chan.recv_ready() / chan.recv_stderr_ready(): bytes are buffered; a
\* select-style channel also reports ready at end-of-stream.
recv_ready(s) == in_buffer[s] # <<>> \/ (ready_at_eof /\ eof[s])

\* chan.recv(n) / chan.recv_stderr(n) when it does not block: up to n
\* buffered bytes, or nothing at end-of-stream.
recv(s, n) == Take(in_buffer[s], n)

\* if not stdout_closed and chan.recv_ready(): the stream is read this time
Reads(s) == ~closed[s] /\ recv_ready(s)

\* from_stdout = chan.recv(4096); if from_stdout: stdout_file.write(...)
FileAfterRead_Mut(s) == IF Reads(s) THEN recv(s, ChunkSize) \o file[s] ELSE file[s]

FileAfterRead(s) == IF Reads(s) THEN file[s] \o recv(s, ChunkSize) ELSE file[s]

BufferAfterRead(s) == IF Reads(s) THEN Drop(in_buffer[s], ChunkSize) ELSE in_buffer[s]

\* else: stdout_closed = True
ClosedAfterRead(s) == closed[s] \/ (Reads(s) /\ recv(s, ChunkSize) = <<>>)

\* the two stream blocks shared by both loops
ReadBothStreams ==
    /\ made_progress_last_time' = (Reads("stdout") \/ Reads("stderr"))
    /\ file' = [s \in Streams |-> FileAfterRead(s)]
    /\ chunks' = [s \in Streams |-> IF Reads(s) THEN Append(chunks[s], recv(s, ChunkSize))
                                               ELSE chunks[s]]
    /\ in_buffer' = [s \in Streams |-> BufferAfterRead(s)]
    /\ closed' = [s \in Streams |-> ClosedAfterRead(s)]

\* while not chan.exit_status_ready(): whether the first loop goes on
PollContinues == ~exit_status_ready

\* while not stdout_closed or not stderr_closed: whether the second loop goes on
DrainContinues_Mut == in_buffer["stdout"] # <<>> \/ in_buffer["stderr"] # <<>>

DrainContinues == ~closed["stdout"] \/ ~closed["stderr"]

ExecInit ==
    /\ x_pc = "start"
    /\ transport \in {"connected", "None"}
    /\ ready_at_eof \in BOOLEAN
    /\ ExecIdle
    /\ c_pc = "none"
    /\ ConnIdle
    /\ q_pc = "none"
    /\ line = <<>>
    /\ QuoteIdle
    /\ sc_pc = "idle"
    /\ ScopeIdle
    /\ pc = "none"
    /\ dry_run = FALSE
    /\ BuildIdle

\* transport = client.get_transport(); ...; chan = transport.open_session(...);
\* chan.settimeout(cmd_timeout); chan.exec_command(command)
ExecStart ==
    /\ x_pc = "start"
    /\ IF transport = "None"
         THEN /\ x_pc' = "raised"
              /\ result' = [result EXCEPT !.kind = "raised",
                                          !.exc = Exc("ValueError", -1)]
         ELSE \E ok \in BOOLEAN :
                IF ok THEN x_pc' = "poll" /\ UNCHANGED result
                      ELSE /\ x_pc' = "raised"
                           /\ result' = [result EXCEPT !.kind = "raised",
                                                       !.exc = Exc("open_session", -1)]
    /\ UNCHANGED <<transport, ready_at_eof, exit_status_ready, in_buffer, eof, sent,
                   sent_at_exit, file, chunks, closed, made_progress_last_time,
                   need_flush,
                   elapsed>>
    /\ UNCHANGED <<scopeVars, buildVars, connVars, quoteVars>>

\* one iteration of the first loop
PollIter ==
    /\ x_pc = "poll"
    /\ PollContinues
    /\ IF ~made_progress_last_time
         THEN /\ need_flush' = FALSE
              /\ elapsed' = Min(elapsed + 1, MaxElapsed)
         ELSE /\ need_flush' = TRUE
              /\ UNCHANGED elapsed
    /\ ReadBothStreams
    /\ UNCHANGED <<x_pc, transport, ready_at_eof, exit_status_ready, eof, sent,
                   sent_at_exit, result>>
    /\ UNCHANGED <<scopeVars, buildVars, connVars, quoteVars>>

\* the first loop is left for the second
PollExit ==
    /\ x_pc = "poll"
    /\ ~PollContinues
    /\ x_pc' = "drain"
    /\ UNCHANGED <<transport, ready_at_eof, exit_status_ready, in_buffer, eof, sent,
                   sent_at_exit, file, chunks, closed, made_progress_last_time,
                   need_flush,
                   elapsed, result>>
    /\ UNCHANGED <<scopeVars, buildVars, connVars, quoteVars>>

\* one iteration of the second loop
DrainIter ==
    /\ x_pc = "drain"
    /\ DrainContinues
    /\ ReadBothStreams
    /\ UNCHANGED <<x_pc, transport, ready_at_eof, exit_status_ready, eof, sent,
                   sent_at_exit, need_flush, elapsed, result>>
    /\ UNCHANGED <<scopeVars, buildVars, connVars, quoteVars>>

\* the second loop is left: the files are read back, decoded and returned
DrainExit ==
    /\ x_pc = "drain"
    /\ ~DrainContinues
    /\ x_pc' = "returned"
    /\ result' = [kind |-> "returned", stdout |-> Decode(file["stdout"]),
                  stderr |-> Decode(file["stderr"]), exc |-> None]
    /\ UNCHANGED <<transport, ready_at_eof, exit_status_ready, in_buffer, eof, sent,
                   sent_at_exit, file, chunks, closed, made_progress_last_time,
                   need_flush,
                   elapsed>>
    /\ UNCHANGED <<scopeVars, buildVars, connVars, quoteVars>>

\* the channel is open (whether or not exec_simple still reads it)
ChannelOpen == x_pc \in {"poll", "drain", "returned"}

\* the channel's remote end: a byte arrives on a stream that is still open
RemoteWrites ==
    /\ ChannelOpen
    /\ \E s \in Streams, b \in Bytes :
          /\ ~eof[s]
          /\ Len(sent[s]) < MaxBytes
          /\ in_buffer' = [in_buffer EXCEPT ![s] = Append(@, b)]
          /\ sent' = [sent EXCEPT ![s] = Append(@, b)]
    /\ UNCHANGED <<x_pc, transport, ready_at_eof, exit_status_ready, eof,
                   sent_at_exit, file, chunks, closed, made_progress_last_time,
                   need_flush,
                   elapsed, result>>
    /\ UNCHANGED <<scopeVars, buildVars, connVars, quoteVars>>

\* a stream reaches end-of-stream
RemoteCloses ==
    /\ ChannelOpen
    /\ \E s \in Streams :
          /\ ~eof[s]
          /\ eof' = [eof EXCEPT ![s] = TRUE]
    /\ UNCHANGED <<x_pc, transport, ready_at_eof, exit_status_ready, in_buffer, sent,
                   sent_at_exit, file, chunks, closed, made_progress_last_time,
                   need_flush,
                   elapsed, result>>
    /\ UNCHANGED <<scopeVars, buildVars, connVars, quoteVars>>

\* the command signals completion: the exit status is there
RemoteExits ==
    /\ ChannelOpen
    /\ ~exit_status_ready
    /\ exit_status_ready' = TRUE
    /\ sent_at_exit' = [s \in Streams |-> Len(sent[s])]
    /\ UNCHANGED <<x_pc, transport, ready_at_eof, in_buffer, eof, sent,
                   file, chunks, closed, made_progress_last_time,
                   need_flush,
                   elapsed, result>>
    /\ UNCHANGED <<scopeVars, buildVars, connVars, quoteVars>>

\* the steps of exec_simple itself
ExecStep == ExecStart \/ PollIter \/ PollExit \/ DrainIter \/ DrainExit

ExecNext ==
    \/ ExecStart
    \/ PollIter
    \/ PollExit
    \/ DrainIter
    \/ DrainExit
    \/ RemoteWrites
    \/ RemoteCloses
    \/ RemoteExits

SpecExec == ExecInit /\ [][ExecNext]_vars

\* --------------------------------- connect_and_execute (SpecConnect)
\* for attempt in range(150)
Attempts == 150

\* if attempt == 149: raise
LastAttemptIdx == 149

\* time.sleep(2)
RetryDelay == 2

\* the statements of the try block, in order
TrySteps == <<"connect", "open_sftp", "write", "chmod", "close">>

\* whether the except clause gives up
GivesUp_Mut(a) == FALSE

GivesUp(a) == a = LastAttemptIdx

ConnInit ==
    /\ c_pc = "for"
    /\ ConnIdle
    /\ q_pc = "none"
    /\ line = <<>>
    /\ QuoteIdle
    /\ sc_pc = "idle"
    /\ ScopeIdle
    /\ pc = "none"
    /\ dry_run = FALSE
    /\ BuildIdle
    /\ x_pc = "none"
    /\ transport = "None"
    /\ ready_at_eof = FALSE
    /\ ExecIdle

\* for attempt in range(150): client = paramiko.SSHClient(); ... -- or the
\* range is used up and the loop ends without a break
ForNext ==
    /\ c_pc = "for"
    /\ IF attempt + 1 < Attempts
         THEN /\ attempt' = attempt + 1
              /\ client' = "new"
              /\ steps_ok' = <<>>
              /\ c_pc' = "connect"
         ELSE /\ c_pc' = "after_loop"
              /\ UNCHANGED <<attempt, client, steps_ok>>
    /\ UNCHANGED <<connects, slept, exec_calls, c_exc>>
    /\ UNCHANGED <<scopeVars, buildVars, execVars, quoteVars>>

\* one statement of the try block: it returns, or raises an Exception that
\* the except clause catches
TryStep(step, next) ==
    /\ c_pc = step
    /\ \E ok \in BOOLEAN :
          IF ok THEN /\ c_pc' = next
                     /\ steps_ok' = Append(steps_ok, step)
                     /\ UNCHANGED c_exc
                ELSE /\ c_pc' = "except"
                     /\ c_exc' = Exc(step, attempt)
                     /\ UNCHANGED steps_ok
    /\ UNCHANGED <<attempt, slept, exec_calls>>
    /\ UNCHANGED <<scopeVars, buildVars, execVars, quoteVars>>

\* client.connect(hostname=ip, ...)
Connect ==
    /\ TryStep("connect", "open_sftp")
    /\ connects' = connects + 1
    /\ client' = IF c_pc' = "open_sftp" THEN "connected" ELSE client

\* sftp = client.open_sftp()
OpenSftp ==
    /\ TryStep("open_sftp", "write")
    /\ UNCHANGED <<connects, client>>

\* with sftp.open(".../initial_script.sh", "w") as remote_file: write(script)
WriteScript ==
    /\ TryStep("write", "chmod")
    /\ UNCHANGED <<connects, client>>

\* sftp.chmod(".../initial_script.sh", 0o755)
Chmod ==
    /\ TryStep("chmod", "close")
    /\ UNCHANGED <<connects, client>>

\* sftp.close(); then break
CloseSftp ==
    /\ TryStep("close", "after_loop")
    /\ UNCHANGED <<connects, client>>

\* except Exception: (log); if attempt == 149: raise; time.sleep(2); continue
AttemptFailed ==
    /\ c_pc = "except"
    /\ IF GivesUp(attempt)
         THEN /\ c_pc' = "raised"
              /\ UNCHANGED <<slept, c_exc>>
         ELSE /\ slept' = slept + RetryDelay
              /\ c_exc' = None
              /\ c_pc' = "for"
    /\ UNCHANGED <<attempt, client, connects, exec_calls, steps_ok>>
    /\ UNCHANGED <<scopeVars, buildVars, execVars, quoteVars>>

\* if client is None: raise Exception(...); otherwise exec_simple(client,
\* "sudo bash /home/ec2-user/initial_script.sh") is called
AfterLoop ==
    /\ c_pc = "after_loop"
    /\ IF client = "None"
         THEN /\ c_pc' = "raised"
              /\ c_exc' = Exc("Failed to connect (client is None)", attempt)
              /\ UNCHANGED exec_calls
         ELSE /\ c_pc' = "exec"
              /\ exec_calls' = exec_calls + 1
              /\ UNCHANGED c_exc
    /\ UNCHANGED <<attempt, client, connects, slept, steps_ok>>
    /\ UNCHANGED <<scopeVars, buildVars, execVars, quoteVars>>

\* exec_simple returns: client.close(); return stdout, stderr
ExecReturns ==
    /\ c_pc = "exec"
    /\ c_pc' = "returned"
    /\ client' = "closed"
    /\ UNCHANGED <<attempt, connects, slept, exec_calls, steps_ok, c_exc>>
    /\ UNCHANGED <<scopeVars, buildVars, execVars, quoteVars>>

\* exec_simple raises: the exception leaves connect_and_execute
ExecRaises ==
    /\ c_pc = "exec"
    /\ c_pc' = "raised"
    /\ c_exc' = Exc("exec_simple", attempt)
    /\ UNCHANGED <<attempt, client, connects, slept, exec_calls, steps_ok>>
    /\ UNCHANGED <<scopeVars, buildVars, execVars, quoteVars>>

ConnNext ==
    \/ ForNext
    \/ Connect
    \/ OpenSftp
    \/ WriteScript
    \/ Chmod
    \/ CloseSftp
    \/ AttemptFailed
    \/ AfterLoop
    \/ ExecReturns
    \/ ExecRaises

SpecConnect == ConnInit /\ [][ConnNext]_vars

\* ---------------------- write_echo_commands_for_file (SpecQuote)
\* Text is a sequence of characters.  Most characters of a line before its
\* line end.
MaxLineLen == 3

\* The characters of a line: backslash, single quote, space, and two
\* letters that ANSI-C quoting gives a meaning after a backslash.
Chars == {"\\", "'", " ", "a", "n"}

\* what str.rstrip() strips, as far as it occurs here
Whitespace == {" ", "\n"}

RECURSIVE SeqsUpTo(_)
SeqsUpTo(n) ==
    IF n = 0 THEN {<<>>}
    ELSE LET shorter == SeqsUpTo(n - 1)
         IN  shorter \cup {Append(q, c) : q \in shorter, c \in Chars}

\* the lines "for line in infile" yields: the characters and the line end
Lines == {q \o <<"\n">> : q \in SeqsUpTo(MaxLineLen)}

\* str.rstrip()
RECURSIVE rstrip(_)
rstrip(s) ==
    IF s = <<>> THEN s
    ELSE IF s[Len(s)] \in Whitespace THEN rstrip(SubSeq(s, 1, Len(s) - 1))
    ELSE s

\* str.replace(old, new) for a one-character old
RECURSIVE replace(_, _, _)
replace(s, old, new) ==
    IF s = <<>> THEN <<>>
    ELSE (IF Head(s) = old THEN new ELSE <<Head(s)>>) \o replace(Tail(s), old, new)

\* line.rstrip().replace("\\", "\\\\").replace("'", "\\'")
cleaned_line(l) ==
    replace(replace(rstrip(l), "\\", <<"\\", "\\">>), "'", <<"\\", "'">>)

\* the text before and after cleaned_line in
\* f"echo $'{cleaned_line}' >> {echo_file_path}\n"; f stands for echo_file_path
EchoPrefix == <<"e", "c", "h", "o", " ", "$", "'">>

EchoSuffix == <<"'", " ", ">", ">", " ", "f", "\n">>

EchoCommand(l) == EchoPrefix \o cleaned_line(l) \o EchoSuffix

\* The shell's reading of $'...' (ANSI-C quoting): what a backslash and the
\* character after it stand for; an escape the shell does not know is kept
\* as it is written.
Unescape(c) ==
    CASE c = "\\" -> <<"\\">>
      [] c = "'" -> <<"'">>
      [] c = "n" -> <<"\n">>
      [] c = "a" -> <<"BEL">>
      [] OTHER -> <<"\\", c>>

\* the shell reads the quoted text up to the closing quote: the text it
\* stands for, what follows the closing quote, and whether there was one
RECURSIVE AnsiC(_, _)
AnsiC(s, acc) ==
    IF s = <<>> THEN [value |-> acc, rest |-> <<>>, closed |-> FALSE]
    ELSE IF Head(s) = "'" THEN [value |-> acc, rest |-> Tail(s), closed |-> TRUE]
    ELSE IF Head(s) = "\\"
      THEN IF Len(s) >= 2 THEN AnsiC(Tail(Tail(s)), acc \o Unescape(s[2]))
                          ELSE [value |-> acc, rest |-> <<>>, closed |-> FALSE]
    ELSE AnsiC(Tail(s), Append(acc, Head(s)))

\* what running the command appends to the file: echo's argument and a line
\* end, when the command is the one word and the redirection
ShellAppends(cmd) ==
    LET word == AnsiC(Drop(cmd, Len(EchoPrefix)), <<>>)
    IN  IF /\ Take(cmd, Len(EchoPrefix)) = EchoPrefix
           /\ word.closed
           /\ <<"'">> \o word.rest = EchoSuffix
          THEN word.value \o <<"\n">>
          ELSE <<"not one echo of one word">>

QuoteInit ==
    /\ q_pc = "read"
    /\ line \in Lines
    /\ QuoteIdle
    /\ sc_pc = "idle"
    /\ ScopeIdle
    /\ pc = "none"
    /\ dry_run = FALSE
    /\ BuildIdle
    /\ x_pc = "none"
    /\ transport = "None"
    /\ ready_at_eof = FALSE
    /\ ExecIdle
    /\ c_pc = "none"
    /\ ConnIdle

\* cleaned_line = ...; writer.write(f"echo $'{cleaned_line}' >> ...\n")
WriteEcho ==
    /\ q_pc = "read"
    /\ writer' = writer \o EchoCommand(line)
    /\ q_pc' = "written"
    /\ UNCHANGED <<line, remote_file>>
    /\ UNCHANGED <<scopeVars, buildVars, execVars, connVars>>

\* the remote shell runs the written command
ShellRuns ==
    /\ q_pc = "written"
    /\ remote_file' = remote_file \o ShellAppends(writer)
    /\ q_pc' = "evaluated"
    /\ UNCHANGED <<line, writer>>
    /\ UNCHANGED <<scopeVars, buildVars, execVars, connVars>>

QuoteNext ==
    \/ WriteEcho
    \/ ShellRuns

SpecQuote == QuoteInit /\ [][QuoteNext]_vars

\* ================================================================ claims
\* ------------------------------------------------ helpers over histories
\* the indices k of calls whose func() raised
FailedCalls == {k \in 1..Len(calls) : calls[k].result # None}

\* the last call that raised (0: none did)
LastFailedCall == IF FailedCalls = {} THEN 0
                  ELSE CHOOSE k \in FailedCalls : \A j \in FailedCalls : j <= k

\* how many reports name exception e with extra_info info and index i
ReportCount(e, info, i) ==
    Cardinality({j \in 1..Len(reports) :
        reports[j] = [exc |-> e, extra_info |-> info, idx |-> i]})

\* C1: in a cleanup_functions scope with N registered actions, whatever the
\* body's outcome and each action's outcome, every action is invoked exactly
\* once and the invocations come in the exact reverse of registration order:
\* the calls made so far are always the first calls of N-1, N-2, ..., 0, and
\* when the scope has exited all N have been made.
C1_ReverseOnce ==
    /\ Len(calls) <= Len(funcs)
    /\ \A k \in 1..Len(calls) : calls[k].idx = Len(funcs) - k
    /\ sc_pc = "exited" => Len(calls) = Len(funcs)

C1_Witness ==
    /\ sc_pc = "exited"
    /\ Len(funcs) >= 3
    /\ base_e # None
    /\ Cardinality(FailedCalls) >= 2
    /\ calls[Len(calls)].result = None

\* C2: when the body failed with E and at least one cleanup action failed
\* too, the exception leaving the scope is the one raised by the cleanup
\* action that failed last in unwind order, it is not E, and E has been
\* reported to handle_error.
C2_CleanupFailureReplacesBodyFailure ==
    (sc_pc = "exited" /\ base_e # None /\ FailedCalls # {}) =>
        /\ raised = calls[LastFailedCall].result
        /\ raised # base_e
        /\ ReportCount(base_e, "in wrapped function", -1) = 1

C2_Witness ==
    /\ sc_pc = "exited"
    /\ base_e # None
    /\ Cardinality(FailedCalls) >= 2
    /\ raised = Exc("cleanup", 0)

\* C3: when a failure of the body of trigger_build (steps 2-7) starts the
\* unwind, the exception trigger_build finally raises to its caller is that
\* triggering failure; a cleanup failure of the same unwind never replaces it.
C3_TriggeringFailureSurfaced ==
    (outcome = "Failed" /\ base_e # None) => surfaced = base_e

\* C4: when the body completed normally, the scope raises the exception of
\* the failing action that ran last in the unwind, which is the failing
\* action with the smallest registration index; with exactly one failing
\* action k that is k's exception; with no failing action the scope exits
\* without an exception.
C4_NormalExitRaisesLastCleanupFailure ==
    (sc_pc = "exited" /\ base_e = None) =>
        /\ FailedCalls = {} => raised = None
        /\ FailedCalls # {} =>
              /\ raised = calls[LastFailedCall].result
              /\ \A k \in FailedCalls : raised.at <= calls[k].idx
              /\ \E k \in FailedCalls : raised.at = calls[k].idx

C4_Witness ==
    /\ sc_pc = "exited"
    /\ base_e = None
    /\ Cardinality(FailedCalls) >= 2
    /\ raised = calls[LastFailedCall].result
    /\ calls[Len(calls)].result = None

\* C5: a failing cleanup action never aborts the unwind: when the scope has
\* exited, every action registered before a failed action k (every index
\* below k) was invoked after k, after a normal and after a failed body.
C5_FailureDoesNotAbortUnwind ==
    sc_pc = "exited" =>
        \A k \in FailedCalls :
            \A i \in 0..(calls[k].idx - 1) :
                \E j \in (k + 1)..Len(calls) : calls[j].idx = i

C5_Witness ==
    /\ sc_pc = "exited"
    /\ Len(funcs) >= 3
    /\ calls[1].result # None
    /\ calls[2].result = None
    /\ Len(calls) = Len(funcs)

\* C6: every failure of a cleanup action is reported to handle_error by
\* exactly one report, which names the action's index, whether or not that
\* failure is the one that propagates; and when the body failed, its
\* exception is the first report, made before any cleanup action is invoked.
C6_EveryFailureReported ==
    /\ \A k \in FailedCalls :
          ReportCount(calls[k].result, "while in cleanup function", calls[k].idx) = 1
    /\ (base_e # None /\ calls # <<>>) =>
          /\ reports # <<>>
          /\ reports[1] = [exc |-> base_e, extra_info |-> "in wrapped function", idx |-> -1]

C6_Witness ==
    /\ sc_pc = "exited"
    /\ base_e # None
    /\ Cardinality(FailedCalls) >= 2
    /\ Len(reports) = 3
    /\ raised # calls[1].result
    /\ calls[1].result # None

\* ------------------------------------------------ helpers over the trace
Called(op) == \E k \in 1..Len(trace) : trace[k].op = op

Succeeded(op) == \E k \in 1..Len(trace) : trace[k].op = op /\ trace[k].ok

\* C7: no run of trigger_build ends (Completed or Failed) with a key pair
\* that create_key_pair provisioned and delete_key_pair was never invoked
\* for, or with an instance that run_instances launched and
\* terminate_instances was never invoked for: whenever a step can fail after
\* the resource exists, its compensating action is already registered.
C7_ProvisionedResourcesAreCleanedUp ==
    outcome \in {"Completed", "Failed"} =>
        /\ Succeeded("ec2.create_key_pair") => Called("ec2.delete_key_pair")
        /\ Succeeded("ec2.run_instances") => Called("ec2.terminate_instances")

\* ------------------------------------------- helpers over the channel
\* the bytes delivered on stream s after the exit status became ready
LateBytes(s) == SubSeq(sent[s], sent_at_exit[s] + 1, Len(sent[s]))

IsSuffix(q, t) ==
    /\ Len(q) <= Len(t)
    /\ SubSeq(t, Len(t) - Len(q) + 1, Len(t)) = q

\* C8: bytes the remote end delivers on stdout or stderr after the command
\* signalled completion and before that stream's end are part of the text
\* exec_simple returns for the stream: every delivered byte is either in the
\* stream's file or still buffered (none is dropped when the exit status
\* arrives), and the returned text ends with the decoded late bytes.
C8_LateOutputIncluded ==
    /\ \A s \in Streams : file[s] \o in_buffer[s] = sent[s]
    /\ x_pc = "returned" =>
          \A s \in Streams : IsSuffix(Decode(LateBytes(s)), result[s])

C8_Witness ==
    /\ x_pc = "returned"
    /\ Len(LateBytes("stdout")) >= 1
    /\ Len(LateBytes("stderr")) >= 1
    /\ sent_at_exit["stdout"] >= 1
    /\ sent["stdout"][Len(sent["stdout"])] = 255
    /\ result["stdout"][Len(result["stdout"])] = 65533

\* C9: exec_simple never keeps polling for the exit status past cmd_timeout:
\* while it is in the first loop with the command not completed, no more
\* than cmd_timeout has passed since it started (beyond that it has failed
\* with a timeout error).
C9_CommandTimeoutEnforced ==
    (x_pc = "poll" /\ ~exit_status_ready) => elapsed <= CmdTimeout

\* C10: exec_simple terminates once the command has signalled completion and
\* both streams have delivered their last byte and reached end-of-stream:
\* from then on, no bytes arriving any more, exec_simple is never stuck in a
\* loop whose iterations change nothing; each iteration reads a byte, closes
\* a stream or leaves the loop, until it returns.
C10_DrainLoopTerminates ==
    (x_pc \in {"poll", "drain"} /\ exit_status_ready /\ \A s \in Streams : eof[s])
        => ENABLED <<ExecStep>>_vars

TerminateTimedOut == "Timed out waiting for instance to terminate"

SlackFailed == "slack.send_ops_message"

\* C11: every run of trigger_build eventually reaches a terminal state
\* (Completed, Failed or DryRunCompleted) as long as each awaited call
\* returns or raises: the wait for the instance to run, the script
\* execution, the wait for the readiness event and the wait for the instance
\* to terminate each end with their timeout, so an instance that never
\* runs, a script that never finishes, a readiness message that never comes
\* and an instance that never terminates cannot keep the run waiting.
C11_RunTerminates == <>(outcome \in {"Completed", "Failed", "DryRunCompleted"})

C11_Witness ==
    /\ outcome = "Failed"
    /\ Succeeded("ssh.connect_and_execute")
    /\ base_e = Exc("TimeoutError", -1)
    /\ build_ready_task = "cancelled"
    /\ \E k \in 1..Len(calls) : calls[k].result.src = TerminateTimedOut

\* C12: with dry_run set, trigger_build performs only the script generation:
\* no operation of any collaborator (compute provider, secure shell, pub/sub,
\* blob storage, notification) is ever called, the cleanup scope is never
\* entered and nothing is registered, nothing is reported, and the run ends
\* in DryRunCompleted and in no other terminal state.
C12_DryRunOnlyGenerates ==
    dry_run =>
        /\ trace = <<>>
        /\ funcs = <<>>
        /\ sc_pc = "idle"
        /\ calls = <<>>
        /\ reports = <<>>
        /\ ec2_key = "absent"
        /\ ec2_inst = "none"
        /\ build_ready_task = "none"
        /\ outcome \in {"Running", "DryRunCompleted"}
        /\ pc = "done" => outcome = "DryRunCompleted"

C12_Witness ==
    /\ dry_run
    /\ pc = "done"
    /\ outcome = "DryRunCompleted"

\* ------------------------------------------- helpers over the unwind
\* the registered callable f was awaited by the unwind
Invoked(f) == \E k \in 1..Len(calls) : funcs[calls[k].idx + 1] = f

\* how many times operation op was called
CallCount(op) == Cardinality({k \in 1..Len(trace) : trace[k].op = op})

StartTimedOut == Exc("Timed out waiting for instance to start", -1)

\* C13: when the instance status has not reached 'running' within the
\* start-timeout, the run ends Failed, the failure trigger_build raises is
\* that timeout, and both _cleanup_key and _cleanup_instance, registered
\* before the wait began, were invoked by the unwind.
C13_StartTimeoutFailsAndUnwinds ==
    (pc = "done" /\ base_e = StartTimedOut) =>
        /\ outcome = "Failed"
        /\ surfaced = StartTimedOut
        /\ Invoked("_cleanup_key")
        /\ Invoked("_cleanup_instance")

\* C14: when connect_and_execute returned and the readiness event was not
\* set within the readiness timeout, the run ends Failed, the failure
\* trigger_build raises is that timeout, no log is uploaded, do_update is not
\* published, and the three registered cleanup actions were invoked.
C14_ReadinessTimeoutFailsAndUnwinds ==
    (pc = "done" /\ Succeeded("ssh.connect_and_execute")
                 /\ base_e = Exc("TimeoutError", -1)) =>
        /\ outcome = "Failed"
        /\ surfaced = Exc("TimeoutError", -1)
        /\ ~Called("files.upload")
        /\ ~Called("redis.publish")
        /\ Invoked("cancel_build_ready_task")
        /\ Invoked("_cleanup_instance")
        /\ Invoked("_cleanup_key")

\* C15: do_update is published at most once per run; the publish is made
\* only when the scope has exited with every registered cleanup action
\* invoked, none of them failed and the body did not fail; and a run that
\* ends Failed or DryRunCompleted has not published it.
C15_UpdatePublishedOnceAfterCleanUnwind ==
    /\ CallCount("redis.publish") <= 1
    /\ Called("redis.publish") =>
          /\ sc_pc = "exited"
          /\ Len(calls) = Len(funcs)
          /\ FailedCalls = {}
          /\ base_e = None
          /\ raised = None
          /\ pc = "done"
    /\ outcome \in {"Failed", "DryRunCompleted"} => ~Succeeded("redis.publish")
    /\ Succeeded("redis.publish") => outcome = "Completed"

C15_Witness ==
    /\ outcome = "Completed"
    /\ Succeeded("redis.publish")
    /\ Len(calls) = 3

\* C16: the expiry of the terminate timeout in _cleanup_instance is not
\* fatal: on a run whose body completed and in whose unwind nothing else
\* failed, the run goes on to publish do_update, and the exception
\* trigger_build raises, if any, is not that expiry.
C16_TerminateTimeoutNonFatal ==
    (pc = "done" /\ base_e = None /\ FailedCalls # {}
                 /\ \A k \in FailedCalls : calls[k].result.src = TerminateTimedOut) =>
        /\ Called("redis.publish")
        /\ surfaced.src # TerminateTimedOut

\* C17: a failure of slack.send_ops_message never aborts the build: it is
\* never the exception that ends the body and starts the unwind, never the
\* exception a cleanup action ends with, and never the exception
\* trigger_build raises.
C17_NotificationFailureNeverAborts ==
    /\ base_e.src # SlackFailed
    /\ \A k \in 1..Len(calls) : calls[k].result.src # SlackFailed
    /\ surfaced.src # SlackFailed

\* the callable f is in the scope's list
Registered(f) == \E i \in 1..Len(funcs) : funcs[i] = f

\* C20: cancel_build_ready_task is registered as soon as the background
\* task exists and before connect_and_execute is started; awaiting it never
\* raises, whether the task is still waiting, has set the event and
\* finished, or has failed; and once it has been awaited the task is not
\* pending any more.
C20_CancelRegisteredAndSafe ==
    /\ build_ready_task # "none" => Registered("cancel_build_ready_task")
    /\ (pc = "execute" \/ Called("ssh.connect_and_execute")) =>
          Registered("cancel_build_ready_task")
    /\ \A k \in 1..Len(calls) :
          funcs[calls[k].idx + 1] = "cancel_build_ready_task" => calls[k].result = None
    /\ Invoked("cancel_build_ready_task") =>
          build_ready_task \in {"cancelled", "done", "failed"}

C20_Witness ==
    /\ Invoked("cancel_build_ready_task")
    /\ build_ready_task = "cancelled"
    /\ ~seen_build_ready
    /\ pc = "done"

\* C19: connect_and_execute calls client.connect at most 150 times, one
\* call per attempt, and has slept the fixed delay once between any two
\* consecutive attempts; exec_simple is called at most once, only after an
\* attempt in which connect, open_sftp, the write, chmod and close all
\* succeeded, and exactly once when connect_and_execute returns; when it
\* raises without having called exec_simple, all 150 attempts were made and
\* the exception is the one of the last attempt.
C19_BoundedRetryThenExecuteOnce ==
    /\ connects <= Attempts
    /\ c_pc \notin {"none", "for"} =>
          connects = IF c_pc = "connect" THEN attempt ELSE attempt + 1
    /\ c_pc \notin {"none", "for"} => slept = RetryDelay * attempt
    /\ exec_calls <= 1
    /\ exec_calls = 1 => steps_ok = TrySteps
    /\ c_pc = "returned" => exec_calls = 1
    /\ (c_pc = "raised" /\ exec_calls = 0) =>
          /\ connects = Attempts
          /\ c_exc.at = Attempts - 1
          /\ c_exc.src \in {TrySteps[i] : i \in 1..Len(TrySteps)}
          /\ steps_ok # TrySteps

C19_Witness ==
    /\ c_pc = "returned"
    /\ exec_calls = 1
    /\ connects = Attempts
    /\ slept = RetryDelay * (Attempts - 1)

\* C18: the quoting of write_echo_commands_for_file round-trips: for every
\* line over backslashes, single quotes, spaces and letters, running the
\* written echo command appends exactly that line to the remote file.
C18_QuotingRoundTrips ==
    q_pc = "evaluated" => remote_file = line

\* ------------------------------------------- helpers over the chunks
\* the concatenation of a sequence of chunks, in order
RECURSIVE Flatten(_)
Flatten(cs) == IF cs = <<>> THEN <<>> ELSE Head(cs) \o Flatten(Tail(cs))

IsPrefix(q, t) ==
    /\ Len(q) <= Len(t)
    /\ SubSeq(t, 1, Len(q)) = q

\* C21: in exec_simple, what is written for a stream is at every moment the
\* in-order concatenation of the chunks read from that stream, which are
\* bytes that stream delivered, in delivery order (none dropped, doubled,
\* reordered or taken from the other stream); the text returned for the
\* stream is that concatenation, decoded; and a stream is marked closed
\* exactly by a zero-length read, after which it is never read again, in
\* either loop.
C21_ReturnedTextIsChunksInOrder ==
    \A s \in Streams :
        /\ file[s] = Flatten(chunks[s])
        /\ IsPrefix(Flatten(chunks[s]), sent[s])
        /\ x_pc = "returned" => result[s] = Decode(Flatten(chunks[s]))
        /\ \A i \in 1..Len(chunks[s]) : chunks[s][i] = <<>> => i = Len(chunks[s])
        /\ closed[s] <=> (chunks[s] # <<>> /\ chunks[s][Len(chunks[s])] = <<>>)

C21_Witness ==
    /\ x_pc = "returned"
    /\ chunks["stdout"] = <<<<65>>, <<255>>, <<>>>>
    /\ chunks["stderr"] = <<<<255>>, <<>>>>
    /\ result["stdout"] = <<65, 65533>>
    /\ result["stderr"] = <<65533>>

\* the position in the trace of the first call of operation op (0: none)
FirstCall(op) ==
    IF Called(op) THEN CHOOSE k \in 1..Len(trace) :
                           /\ trace[k].op = op
                           /\ \A j \in 1..(k - 1) : trace[j].op # op
    ELSE 0

UnwindOrder == <<"cancel_build_ready_task", "_cleanup_instance", "_cleanup_key">>

\* C22: on a run of trigger_build that registered all three actions, the
\* unwind awaits cancel_build_ready_task, then _cleanup_instance (its poll
\* for a terminal status included), then _cleanup_key, each once, whatever
\* each of them does; the background task is not left waiting once
\* _cleanup_instance has been awaited, and delete_key_pair is never called
\* before _cleanup_instance has returned or raised.
C22_UnwindOrderCancelTerminateRevoke ==
    Len(funcs) = 3 =>
        /\ funcs = <<"_cleanup_key", "_cleanup_instance", "cancel_build_ready_task">>
        /\ Len(calls) <= 3
        /\ \A k \in 1..Len(calls) : funcs[calls[k].idx + 1] = UnwindOrder[k]
        /\ sc_pc = "exited" => Len(calls) = 3
        /\ Invoked("_cleanup_instance") => build_ready_task # "waiting"
        /\ Called("ec2.delete_key_pair") =>
              /\ Invoked("_cleanup_instance")
              /\ Called("ec2.terminate_instances")
              /\ FirstCall("ec2.terminate_instances") < FirstCall("ec2.delete_key_pair")
        /\ ec2_key = "deleted" => Invoked("_cleanup_instance")

C22_Witness ==
    /\ pc = "done"
    /\ Len(funcs) = 3
    /\ Len(calls) = 3
    /\ calls[2].result = Exc(TerminateTimedOut, 1)
    /\ ec2_inst = "shutting-down"
    /\ ec2_key = "deleted"
    /\ build_ready_task = "cancelled"

=============================================================================
